---- MODULE Spec2Model ----
(***************************************************************************)
(* Model of the capsule session layer of mcp-memvid (src/src/index.ts):    *)
(* the path resolver, the process-wide handle cache, and the tool          *)
(* dispatcher handleToolCall.  Node runs each handler to completion        *)
(* between awaits; `running` names the handler that is inside a            *)
(* synchronous block, and the engine (create/use/put/find/timeline) and    *)
(* its promises settle asynchronously.                                     *)
(***************************************************************************)
EXTENDS Integers, Sequences, FiniteSets, TLC

VARIABLES
    capsuleCache,   \* the Map of open capsules: name -> handle
    files,          \* the capsule files that exist under CAPSULES_DIR
    dirExists,      \* whether CAPSULES_DIR exists
    env,            \* process.env as the module reads it
    running,        \* the handler that is inside a synchronous block
    handler         \* per request slot: position and locals of handleToolCall

vars == <<capsuleCache, files, dirExists, env, running, handler>>

\* ------------------------------------------------------------------ bounds
Procs == {1, 2}
MaxHandles == 4
MaxLimit == 1
MaxNameLen == 2

\* --------------------------------------------------------------- constants
NoProc == 0
NoHandle == 0
Handles == 1..MaxHandles
Absent == <<"<undefined>">>
NoPath == <<>>
NoResponse == <<>>
NoResults == [array |-> FALSE, items |-> <<>>, hasHits |-> FALSE, hits |-> <<>>]
NoResult == [ok |-> TRUE, handle |-> NoHandle, message |-> <<>>, results |-> NoResults]

CAPSULES_DIR == "~/.local/share/memvid/capsules"

\* capsule names the callers use: two that differ only in an unsafe
\* character
Names == { <<"a", "/">>, <<"a", "_">> }
CapsuleArgs == Names \cup {Absent}

\* every string of at most MaxNameLen characters over safe and unsafe
\* characters, the empty string and ".." among them
NameChars == {"a", "Z", "-", "/", "."}
NameInputs == UNION { [1..k -> NameChars] : k \in 0..MaxNameLen }

Tools == {"store_memory", "delete_capsule", "semantic_search", "text_search",
          "smart_search", "recent_memories", "list_capsules",
          "create_capsule", "capsule_info", "embedding_config"}
SearchTools == {"semantic_search", "text_search", "smart_search"}
ReadTools == SearchTools \cup {"recent_memories"}

\* values of args.confirm: the boolean true, the boolean false, a missing
\* key, and a truthy value that is not a boolean (the string "true", 1)
ConfirmValues == {"true", "false", "absent", "truthy"}

\* values of args.limit (NoLimit: the key is missing)
NoLimit == -1
LimitArgs == {NoLimit} \cup 0..MaxLimit

\* values of args.embedding_model and args.title
ModelArgs == {Absent, <<>>, <<"nomic">>}
TitleArgs == {Absent}

\* an engine call in flight, with the options it was given
NoCall == [call |-> "none", limit |-> NoLimit, k |-> NoLimit, mode |-> "none",
           enable_embedding |-> FALSE, embedding_model |-> Absent, title |-> Absent,
           embeddingModel |-> Absent]
OpenCall(c) == [NoCall EXCEPT !.call = c]

\* ---------------------------------------------------------- path resolver
SafeChars == {"a", "b", "n", "A", "Z", "0", "9", "_", "-"}

\* variant: the name is used as it is
SanitizeCharKeep(c) == c

SanitizeChar(c) == IF c \in SafeChars THEN c ELSE "_"

safeName(name) == [i \in 1..Len(name) |-> SanitizeChar(name[i])]

\* the pure part of getCapsulePath: join(CAPSULES_DIR, `${safeName}.mv2`)
getCapsulePath(name) == <<CAPSULES_DIR, "/">> \o safeName(name) \o <<".mv2">>

\* ensureCapsuleDir: existsSync, then mkdirSync, which can throw
MkdirError == <<"EACCES: permission denied, mkdir">>
EnsureDirOutcomes(dir) ==
    IF dir THEN {[threw |-> FALSE, dir |-> TRUE]}
    ELSE {[threw |-> FALSE, dir |-> TRUE], [threw |-> TRUE, dir |-> FALSE]}

\* name.replace on a missing argument
TypeErrorMessage == <<"Cannot read properties of undefined (reading 'replace')">>

\* getCapsulePath as called: ensureCapsuleDir first, then the replace
PathOutcomes(dir, name) ==
    { IF o.threw THEN [threw |-> TRUE, message |-> MkdirError,
                       path |-> NoPath, dir |-> o.dir]
      ELSE IF name = Absent
           THEN [threw |-> TRUE, message |-> TypeErrorMessage,
                 path |-> NoPath, dir |-> o.dir]
           ELSE [threw |-> FALSE, message |-> <<>>,
                 path |-> getCapsulePath(name), dir |-> o.dir]
      : o \in EnsureDirOutcomes(dir) }

\* variant: no path is ever found
existsSyncNever(p) == FALSE

existsSync(p) == p \in files

\* ------------------------------------------------------------- responses
TextResponse(text) == [text |-> text]

NotFoundMessage(name) == <<"Capsule '">> \o name \o <<"' does not exist">>

\* variant: the engine's text is replaced, not wrapped
AccessErrorReplaced(name, message) == <<"Failed to access capsule '">> \o name \o <<"'">>

AccessErrorMessage(name, message) ==
    <<"Failed to access capsule '">> \o name \o <<"': ">> \o message

\* the catch of handleToolCall
ErrorResponse(message) == TextResponse(<<"Error: ">> \o message)

NotConfirmedResponse ==
    TextResponse(<<"Deletion not confirmed. Set 'confirm' to true to delete.">>)

\* variant: the default branch throws instead of returning
UnknownToolThrows(name) == ErrorResponse(<<"Unknown tool: ", name>>)

UnknownToolResponse(name) == TextResponse(<<"Unknown tool: ", name>>)

IsError(r) == r # NoResponse /\ Len(r.text) > 0 /\ r.text[1] = "Error: "

IsAccessError(r) ==
    IsError(r) /\ Len(r.text) > 1 /\ r.text[2] = "Failed to access capsule '"

\* ------------------------------------------------------ embedding provider
BaselineModel == <<"bge-small">>

\* process.env as read at module load: OLLAMA_HOST || OLLAMA_BASE_URL,
\* MEMVID_EMBEDDING_MODEL, OPENAI_API_KEY, OPENAI_BASE_URL
OLLAMA_HOST == env.ollamaHost
DEFAULT_EMBEDDING_MODEL ==
    IF env.embeddingModel # Absent THEN env.embeddingModel ELSE BaselineModel

\* variant: the local-inference override wins over the requested model
getEmbeddingModelHostFirst(requested) ==
    IF OLLAMA_HOST # Absent /\ DEFAULT_EMBEDDING_MODEL = BaselineModel
    THEN <<"openai-small">>
    ELSE IF requested # Absent /\ requested # <<>> THEN requested
         ELSE DEFAULT_EMBEDDING_MODEL

getEmbeddingModel(requested) ==
    IF requested # Absent /\ requested # <<>> THEN requested
    ELSE IF OLLAMA_HOST # Absent /\ DEFAULT_EMBEDDING_MODEL = BaselineModel
         THEN <<"openai-small">>
         ELSE DEFAULT_EMBEDDING_MODEL

\* configureOllama: route OpenAI-compatible calls to the local host unless an
\* explicit OPENAI_BASE_URL is set
configureOllama(e) ==
    IF e.ollamaHost # Absent /\ e.openaiBaseUrl = Absent
    THEN LET host == e.ollamaHost
             ollamaUrl ==
               IF host[Len(host)] = "/v1" THEN host
               ELSE (IF host[Len(host)] = "/" THEN SubSeq(host, 1, Len(host) - 1)
                     ELSE host) \o <<"/v1">>
         IN [e EXCEPT !.openaiBaseUrl = ollamaUrl]
    ELSE e

OrNull(v) == IF v # Absent THEN v ELSE <<"null">>

\* the environments the server can be started in
OllamaHosts == {Absent, <<"http://ollama:11434">>, <<"http://ollama:11434", "/">>}
DefaultModels == {Absent, BaselineModel, <<"nomic">>}
ApiKeys == {Absent, <<"sk-one">>, <<"sk-two">>}
BaseUrls == {Absent, <<"https://proxy", "/v1">>}
Environments ==
    { configureOllama([ollamaHost |-> h, embeddingModel |-> m,
                       openaiKey |-> k, openaiBaseUrl |-> u])
      : h \in OllamaHosts, m \in DefaultModels, k \in ApiKeys, u \in BaseUrls }

\* variant: the model is resolved whether or not embedding is enabled
embeddingModelAlways(enableEmbedding, requested) == getEmbeddingModel(requested)

\* store_memory: enableEmbedding ? getEmbeddingModel(args.embedding_model)
\* : undefined
embeddingModelOf(enableEmbedding, requested) ==
    IF enableEmbedding THEN getEmbeddingModel(requested) ELSE Absent

\* variant: the key itself is reported
getEmbeddingConfigEcho(OPENAI_API_KEY) ==
    [defaultModel   |-> DEFAULT_EMBEDDING_MODEL,
     effectiveModel |-> getEmbeddingModel(Absent),
     ollamaHost     |-> OrNull(OLLAMA_HOST),
     openaiBaseUrl  |-> OrNull(env.openaiBaseUrl),
     openaiKeySet   |-> OrNull(OPENAI_API_KEY)]

\* getEmbeddingConfig, with the process.env.OPENAI_API_KEY it reads as
\* its argument
getEmbeddingConfig(OPENAI_API_KEY) ==
    [defaultModel   |-> DEFAULT_EMBEDDING_MODEL,
     effectiveModel |-> getEmbeddingModel(Absent),
     ollamaHost     |-> OrNull(OLLAMA_HOST),
     openaiBaseUrl  |-> OrNull(env.openaiBaseUrl),
     openaiKeySet   |-> IF OPENAI_API_KEY # Absent /\ OPENAI_API_KEY # <<>>
                        THEN <<"true">> ELSE <<"false">>]

\* JSON.stringify(config, null, 2) of the embedding_config response
EmbeddingConfigText(config) ==
    <<"{\"defaultModel\": ">> \o config.defaultModel
    \o <<", \"effectiveModel\": ">> \o config.effectiveModel
    \o <<", \"ollamaHost\": ">> \o config.ollamaHost
    \o <<", \"openaiBaseUrl\": ">> \o config.openaiBaseUrl
    \o <<", \"openaiKeySet\": ">> \o config.openaiKeySet
    \o <<", \"supportedModels\": {...}}">>

\* ------------------------------------------------------ result normalizer
NoHit == [title |-> Absent, snippet |-> Absent, text |-> Absent,
          preview |-> Absent, score |-> Absent]
Hit1 == [NoHit EXCEPT !.title = <<"T">>, !.snippet = <<"s">>, !.text = <<"x">>,
                      !.score = <<"0.5">>]
Hit2 == [NoHit EXCEPT !.text = <<"y">>]

\* what find/timeline can resolve to: a bare list, or an object that may
\* carry a hits list
\* (array: Array.isArray; items: its elements; hasHits, hits: the hits
\* property of an object)
BareList(items) == [array |-> TRUE, items |-> items, hasHits |-> FALSE, hits |-> <<>>]
Wrapped(hits) == [array |-> FALSE, items |-> <<>>, hasHits |-> TRUE, hits |-> hits]
NoHitsField == [array |-> FALSE, items |-> <<>>, hasHits |-> FALSE, hits |-> <<>>]
CorePayloads == { BareList(<<>>), Wrapped(<<Hit2, Hit1>>) }
Payloads == CorePayloads \cup
            { BareList(<<Hit1, Hit2>>), BareList(<<Hit1>>), Wrapped(<<>>), NoHitsField }

\* variant: only the hits property is looked at
normalizeResultsHitsOnly(results) ==
    IF results.hasHits THEN results.hits ELSE <<>>

\* Array.isArray(results) ? results : results.hits || []
normalizeResults(results) ==
    IF results.array THEN results.items
    ELSE IF results.hasHits THEN results.hits ELSE <<>>

Or(a, b) == IF a # Absent /\ a # <<>> THEN a ELSE b

RECURSIVE Trim(_)
Trim(t) ==
    IF t # <<>> /\ t[Len(t)] \in {"\n", ""} THEN Trim(SubSeq(t, 1, Len(t) - 1)) ELSE t

formatResult(result) ==
    LET title   == Or(result.title, <<"Untitled">>)
        content == Or(result.snippet, Or(result.text, Or(result.preview, <<>>)))
        score   == IF result.score # Absent THEN <<"Score: ">> \o result.score ELSE <<>>
    IN Trim(<<"[">> \o title \o <<"]", "\n">> \o content \o <<"\n">> \o score)

RECURSIVE Join(_)
Join(hits) ==
    IF Len(hits) = 0 THEN <<>>
    ELSE IF Len(hits) = 1 THEN formatResult(hits[1])
    ELSE formatResult(hits[1]) \o <<"\n\n---\n\n">> \o Join(Tail(hits))

\* (args.limit as number) || 10
DefaultLimit == 10
LimitOf(l) == IF l # NoLimit /\ l # 0 THEN l ELSE DefaultLimit

ModeOf(o) ==
    CASE o = "semantic_search" -> "sem"
      [] o = "text_search"     -> "lex"
      [] o = "smart_search"    -> "auto"
      [] OTHER                 -> "none"

\* variant: an empty result is rendered like any other
SearchResponseBlank(results) == TextResponse(Join(normalizeResults(results)))

SearchResponse(results) ==
    LET hits == normalizeResults(results) IN
    TextResponse(IF Len(hits) > 0 THEN Join(hits) ELSE <<"No results found">>)

\* recent_memories: the timeline result is used as it comes, the find
\* result goes through normalizeResults; `hits.length > 0` is false when
\* hits is an object
RecentResponse(call, results) ==
    LET hits == IF call = "timeline"
                THEN (IF results.array THEN results.items ELSE <<>>)
                ELSE normalizeResults(results)
    IN TextResponse(IF Len(hits) > 0 THEN Join(hits) ELSE <<"No memories found">>)

StoreResponse(capsule, title, enableEmbedding, embeddingModel) ==
    TextResponse(<<"Stored memory in capsule '">> \o capsule \o <<"'">>
                 \o (IF title # Absent
                     THEN <<" with title '">> \o title \o <<"'">> ELSE <<>>)
                 \o (IF enableEmbedding
                     THEN <<" (embedded with ">> \o embeddingModel \o <<")">> ELSE <<>>))

\* ------------------------------------------------------------ handle cache
\* variant: the lookup never finds an entry
cachedNever(name) == NoHandle

\* capsuleCache.get(name)
cached(name) == IF name \in Names THEN capsuleCache[name] ELSE NoHandle

\* variant: the opened handle is returned without being cached
CacheSetSkipped(name, handle) == capsuleCache

\* capsuleCache.set(name, instance)
CacheSet(name, handle) == [capsuleCache EXCEPT ![name] = handle]

\* variant: the entry is left in place
CacheDeleteSkipped(name) == capsuleCache

\* capsuleCache.delete(name)
CacheDelete(name) == [capsuleCache EXCEPT ![name] = NoHandle]

\* handles the engine has handed out and that are still referenced
LiveHandles ==
    {capsuleCache[n] : n \in Names} \cup {handler[p].instance : p \in Procs}
      \cup {handler[p].settled.handle : p \in Procs}

\* the engine returns a new object on every successful create/use
FreshHandles == Handles \ LiveHandles
NewHandle == CHOOSE h \in FreshHandles : \A g \in FreshHandles : h <= g

\* ------------------------------------------------------- handler locals
NoArgs == [capsule |-> Absent, confirm |-> "absent"]

\* the argument maps a caller can send for each tool: the capsule name
\* (args.name for create_capsule) and the confirm flag; the keys that only
\* parametrise the engine call (limit, enable_embedding, embedding_model,
\* title) are drawn where the handler reads them
ArgsFor(o) ==
    CASE o = "delete_capsule" ->
           {[capsule |-> c, confirm |-> k] : c \in CapsuleArgs, k \in ConfirmValues}
      [] o \in {"store_memory", "create_capsule", "capsule_info"} \cup ReadTools ->
           {[capsule |-> c, confirm |-> "absent"] : c \in CapsuleArgs}
      [] OTHER -> {NoArgs}

\* a request slot with no call in it
Idle == [pc |-> "idle", op |-> "none", args |-> NoArgs, createIfNotExists |-> TRUE,
         path |-> NoPath, instance |-> NoHandle, pending |-> NoCall,
         settled |-> NoResult, response |-> NoResponse]

\* handleToolCall(name, args) has been entered
Started(o, a) == [Idle EXCEPT !.pc = "running", !.op = o, !.args = a]

\* the handler returns a response; nothing else of the call is kept
Returned(h, resp) ==
    [Idle EXCEPT !.pc = "done", !.op = h.op, !.args = h.args, !.response = resp]

\* a read tool returns; `results` is what its find or timeline call
\* resolved to
ReturnedResults(h, resp, results) ==
    [Returned(h, resp) EXCEPT !.settled.results = results]

\* variant: the throw leaves handleToolCall
Uncaught(h, message) == [Returned(h, NoResponse) EXCEPT !.pc = "raised"]

\* the try/catch of handleToolCall (lines 395, 582-587) turns a throw into
\* a response
Caught(h, message) == Returned(h, ErrorResponse(message))

\* variant: `if (!args.confirm)`
ConfirmIsTruthy(c) == c \in {"true", "truthy"}

\* args.confirm !== true
ConfirmIsTrue(c) == c = "true"

\* the request parameters and engine results a specification draws from:
\* all of them, or the defaults only
LimitChoices(full) == IF full THEN LimitArgs ELSE {NoLimit}
EmbeddingChoices(full) == IF full THEN BOOLEAN ELSE {FALSE}
ModelChoices(full) == IF full THEN ModelArgs ELSE {Absent}
PayloadChoices(full) == IF full THEN Payloads ELSE CorePayloads

\* what the handler does with the handle once `await getCapsule(...)` has
\* given it one: store_memory (lines 400-412) calls put, the searches
\* (lines 450-453, 467-470, 484-487) call find, recent_memories (lines
\* 502-507) calls timeline if the handle has one and find otherwise,
\* create_capsule (lines 545-547) returns
AfterGetCapsule(h, handle, full) ==
    CASE h.op = "store_memory" ->
           { [h EXCEPT !.pc = "await_engine", !.instance = handle,
                       !.settled = NoResult,
                       !.pending = [NoCall EXCEPT
                          !.call = "put", !.enable_embedding = e,
                          !.embedding_model = m, !.title = t,
                          !.embeddingModel = embeddingModelOf(e, m)]]
             : e \in EmbeddingChoices(full), m \in ModelChoices(full), t \in TitleArgs }
      [] h.op \in SearchTools ->
           { [h EXCEPT !.pc = "await_engine", !.instance = handle,
                       !.settled = NoResult,
                       !.pending = [NoCall EXCEPT
                          !.call = "find", !.limit = l, !.k = LimitOf(l),
                          !.mode = ModeOf(h.op)]]
             : l \in LimitChoices(full) }
      [] h.op = "recent_memories" ->
           { [h EXCEPT !.pc = "await_engine", !.instance = handle,
                       !.settled = NoResult,
                       !.pending = [NoCall EXCEPT
                          !.call = IF hasTimeline THEN "timeline" ELSE "find",
                          !.limit = l, !.k = LimitOf(l)]]
             : l \in LimitChoices(full), hasTimeline \in BOOLEAN }
      [] OTHER ->
           { Returned(h, TextResponse(<<"Created capsule '">> \o h.args.capsule
                                      \o <<"' at ">> \o h.path)) }

\* getCapsule up to its await (lines 128-142): the cache lookup, then the
\* path, the existence test and the engine call.  Gives the handler's next
\* locals and whether CAPSULES_DIR exists afterwards.
getCapsule(h, dir, full) ==
    LET name == h.args.capsule
        hit  == cached(name)
    IN IF hit # NoHandle
       THEN { [local |-> l, dir |-> dir] : l \in AfterGetCapsule(h, hit, full) }
       ELSE { [local |->
                 IF o.threw THEN Caught(h, o.message)
                 ELSE IF ~existsSync(o.path) /\ ~h.createIfNotExists
                      THEN Caught(h, AccessErrorMessage(name, NotFoundMessage(name)))
                 ELSE [h EXCEPT !.pc = "await_open", !.path = o.path,
                                !.pending = OpenCall(IF existsSync(o.path)
                                                     THEN "use" ELSE "create")],
               dir |-> o.dir]
              : o \in PathOutcomes(dir, name) }

\* ---------------------------------------------------------- state machine
Init ==
    /\ capsuleCache = [n \in Names |-> NoHandle]
    /\ files = {}
    /\ dirExists \in BOOLEAN
    /\ env = configureOllama([ollamaHost |-> Absent, embeddingModel |-> Absent,
                               openaiKey |-> Absent, openaiBaseUrl |-> Absent])
    /\ running = NoProc
    /\ handler = [p \in Procs |-> Idle]

\* a request can be taken up when its slot is free and no handler is
\* inside a synchronous block
CanStart(p) == handler[p].pc = "idle" /\ running = NoProc

\* variant: a continuation also waits while another handler has a settled
\* open in hand
CanRunAfterOthers(p) ==
    /\ running \in {NoProc, p}
    /\ \A q \in Procs \ {p} : handler[q].pc # "open_settled"

\* a continuation runs when no other handler is inside a synchronous block
CanRun(p) == running \in {NoProc, p}

\* the handler goes on to `local`; it stays inside its synchronous block
\* while it evicts and unlinks, and until its response is handed over
\* (InBlockUntilEvicted: a variant that awaits between the two)
InBlockUntilEvicted == {"evict", "done"}
InBlock == {"evict", "unlink", "done"}
Step(p, local) ==
    /\ handler' = [handler EXCEPT ![p] = local]
    /\ running' = IF local.pc \in InBlock THEN p ELSE NoProc

\* store_memory, lines 398-399: getCapsule(args.capsule) with the default flag
StoreMemory(p, full) ==
    /\ CanStart(p)
    /\ \E a \in ArgsFor("store_memory") :
       \E out \in getCapsule([Started("store_memory", a) EXCEPT
                                 !.createIfNotExists = TRUE], dirExists, full) :
         /\ Step(p, out.local)
         /\ dirExists' = out.dir
    /\ UNCHANGED <<capsuleCache, files, env>>

\* variant: the flag is left at its default
ReadCreatesIfNotExists == TRUE

\* the flag the search and recent handlers pass to getCapsule
ReadCreateIfNotExists == FALSE

\* semantic_search, text_search, smart_search, recent_memories:
\* getCapsule(args.capsule, false)
ReadCapsule(p, full) ==
    /\ CanStart(p)
    /\ \E o \in ReadTools : \E a \in ArgsFor(o) :
       \E out \in getCapsule([Started(o, a) EXCEPT
                                 !.createIfNotExists = ReadCreateIfNotExists],
                              dirExists, full) :
         /\ Step(p, out.local)
         /\ dirExists' = out.dir
    /\ UNCHANGED <<capsuleCache, files, env>>

\* create_capsule, lines 537-544: the existence check, then getCapsule(name, true)
CreateCapsule(p, full) ==
    /\ CanStart(p)
    /\ \E a \in ArgsFor("create_capsule") :
       \E o \in PathOutcomes(dirExists, a.capsule) :
         LET h == Started("create_capsule", a) IN
         IF o.threw
         THEN Step(p, Caught(h, o.message)) /\ dirExists' = o.dir
         ELSE IF existsSync(o.path)
         THEN /\ Step(p, Returned(h, TextResponse(<<"Capsule '">> \o a.capsule
                                     \o <<"' already exists at ">> \o o.path)))
              /\ dirExists' = o.dir
         ELSE \E out \in getCapsule([h EXCEPT !.path = o.path,
                                              !.createIfNotExists = TRUE], o.dir, full) :
                /\ Step(p, out.local)
                /\ dirExists' = out.dir
    /\ UNCHANGED <<capsuleCache, files, env>>

EngineError == <<"engine failure">>

\* the texts an open can fail with
OpenErrors == {EngineError, <<"ENOSPC: no space left on device">>}

\* @memvid/sdk create(path) / use("basic", path) settles: a successful
\* create leaves the capsule file behind, a use needs the file
EngineOpen(p) ==
    /\ handler[p].pc = "await_open"
    /\ \/ /\ handler[p].pending.call = "create" \/ handler[p].path \in files
          /\ FreshHandles # {}
          /\ handler' = [handler EXCEPT ![p].pc = "open_settled",
                                         ![p].settled.handle = NewHandle]
          /\ files' = files \cup {handler[p].path}
       \/ /\ \E message \in OpenErrors :
               handler' = [handler EXCEPT ![p].pc = "open_settled",
                                          ![p].settled.ok = FALSE,
                                          ![p].settled.message = message]
          /\ UNCHANGED files
    /\ UNCHANGED <<capsuleCache, dirExists, env, running>>

\* getCapsule, lines 143-148: the continuation after the await, and the
\* handler's continuation after it
GetCapsuleResume(p, full) ==
    /\ handler[p].pc = "open_settled"
    /\ CanRun(p)
    /\ LET h == handler[p] IN
       IF h.settled.ok
       THEN /\ capsuleCache' = CacheSet(h.args.capsule, h.settled.handle)
            /\ \E l \in AfterGetCapsule(h, h.settled.handle, full) : Step(p, l)
       ELSE /\ Step(p, Caught(h, AccessErrorMessage(h.args.capsule, h.settled.message)))
            /\ UNCHANGED capsuleCache
    /\ UNCHANGED <<files, dirExists, env>>

\* capsule.put / capsule.find / capsule.timeline settles and the handler
\* continues: lines 414-420, 454-462, 508-517, or the catch
HandlerResume(p, full) ==
    /\ handler[p].pc = "await_engine"
    /\ CanRun(p)
    /\ LET h == handler[p] IN
       \/ /\ h.pending.call = "put"
          /\ Step(p, Returned(h, StoreResponse(h.args.capsule, h.pending.title,
                         h.pending.enable_embedding, h.pending.embeddingModel)))
       \/ /\ h.pending.call \in {"find", "timeline"}
          /\ \E results \in PayloadChoices(full) :
               Step(p, ReturnedResults(h, IF h.op = "recent_memories"
                                          THEN RecentResponse(h.pending.call, results)
                                          ELSE SearchResponse(results),
                                       results))
       \/ Step(p, Caught(h, EngineError))
    /\ UNCHANGED <<capsuleCache, files, dirExists, env>>

UnlinkError == <<"EACCES: permission denied, unlink">>
ReaddirError == <<"EACCES: permission denied, scandir">>

\* delete_capsule, lines 424-439: the confirmation and existence checks
DeleteCapsule(p) ==
    /\ CanStart(p)
    /\ \E a \in ArgsFor("delete_capsule") :
         LET h == Started("delete_capsule", a) IN
         IF ~ConfirmIsTrue(a.confirm)
         THEN /\ Step(p, Returned(h, NotConfirmedResponse))
              /\ UNCHANGED dirExists
         ELSE \E o \in PathOutcomes(dirExists, a.capsule) :
                /\ dirExists' = o.dir
                /\ IF o.threw
                   THEN Step(p, Caught(h, o.message))
                   ELSE IF ~existsSync(o.path)
                   THEN Step(p, Returned(h, TextResponse(NotFoundMessage(a.capsule))))
                   ELSE Step(p, [h EXCEPT !.pc = "evict", !.path = o.path])
    /\ UNCHANGED <<capsuleCache, files, env>>

\* delete_capsule, line 440: capsuleCache.delete(args.capsule); `instance`
\* records the handle the entry held, which the handler itself drops
DeleteEvict(p) ==
    /\ handler[p].pc = "evict"
    /\ CanRun(p)
    /\ capsuleCache' = CacheDelete(handler[p].args.capsule)
    /\ Step(p, [handler[p] EXCEPT !.pc = "unlink",
                                  !.instance = cached(handler[p].args.capsule)])
    /\ UNCHANGED <<files, dirExists, env>>

\* delete_capsule, lines 441-444: unlinkSync(path), which can throw
DeleteUnlink(p) ==
    /\ handler[p].pc = "unlink"
    /\ CanRun(p)
    /\ LET h == handler[p] IN
       \/ /\ h.path \in files
          /\ files' = files \ {h.path}
          /\ Step(p, Returned(h, TextResponse(<<"Deleted capsule '">>
                                    \o h.args.capsule \o <<"'">>)))
       \/ /\ UNCHANGED files
          /\ Step(p, Caught(h, UnlinkError))
    /\ UNCHANGED <<capsuleCache, dirExists, env>>

\* f.replace(".mv2", "") on a directory entry that ends with ".mv2"
StripExtension(f) == SubSeq(f, 3, Len(f) - 1)

RECURSIVE Lines(_)
Lines(S) ==
    IF S = {} THEN <<>>
    ELSE LET f == CHOOSE x \in S : TRUE
         IN <<"  - ">> \o StripExtension(f) \o <<"\n">> \o Lines(S \ {f})

\* listCapsules and the list_capsules handler, lines 151-156 and 521-534
ListCapsules(p) ==
    /\ CanStart(p)
    /\ LET h == Started("list_capsules", NoArgs) IN
       \E o \in EnsureDirOutcomes(dirExists) :
         /\ dirExists' = o.dir
         /\ \/ /\ o.threw
               /\ Step(p, Caught(h, MkdirError))
            \/ /\ ~o.threw
               /\ Step(p, Caught(h, ReaddirError))
            \/ /\ ~o.threw
               /\ Step(p, Returned(h, TextResponse(
                    IF files # {}
                    THEN <<"Available capsules:\n">> \o Lines(files)
                         \o <<"\nStorage: ", CAPSULES_DIR>>
                    ELSE <<"No capsules found.\nStorage: ", CAPSULES_DIR>>)))
    /\ UNCHANGED <<capsuleCache, files, env>>

\* capsule_info, lines 550-562
CapsuleInfo(p, full) ==
    /\ CanStart(p)
    /\ \E a \in ArgsFor("capsule_info")
               \cup (IF full
                     THEN {[capsule |-> c, confirm |-> "absent"] : c \in NameInputs}
                     ELSE {}) :
       \E o \in PathOutcomes(dirExists, a.capsule) :
         LET h == Started("capsule_info", a) IN
         /\ dirExists' = o.dir
         /\ Step(p,
              IF o.threw THEN Caught(h, o.message)
              ELSE Returned(h, TextResponse(
                     <<"{\"name\": ">> \o a.capsule
                     \o <<", \"path\": ">> \o o.path
                     \o <<", \"exists\": ", IF existsSync(o.path) THEN "true" ELSE "false",
                          ", \"capsulesDirectory\": ", CAPSULES_DIR, "}">>)))
    /\ UNCHANGED <<capsuleCache, files, env>>

\* embedding_config, lines 565-575
EmbeddingConfig(p) ==
    /\ CanStart(p)
    /\ LET config == getEmbeddingConfig(env.openaiKey) IN
         Step(p, Returned(Started("embedding_config", NoArgs),
                          TextResponse(EmbeddingConfigText(config))))
    /\ UNCHANGED <<capsuleCache, files, dirExists, env>>

\* a tool name outside the ten tools
UnknownNames == {"bogus_tool"}

\* the default branch of the switch, lines 577-580
UnknownTool(p) ==
    /\ CanStart(p)
    /\ \E name \in UnknownNames :
         Step(p, Returned(Started(name, NoArgs), UnknownToolResponse(name)))
    /\ UNCHANGED <<capsuleCache, files, dirExists, env>>

\* the response goes back to the transport (lines 614-619) and the slot
\* is free for the next request
Return(p) ==
    /\ handler[p].pc = "done"
    /\ CanRun(p)
    /\ Step(p, Idle)
    /\ UNCHANGED <<capsuleCache, files, dirExists, env>>

Handle(p, full) ==
    \/ StoreMemory(p, full)
    \/ ReadCapsule(p, full)
    \/ CreateCapsule(p, full)
    \/ EngineOpen(p)
    \/ GetCapsuleResume(p, full)
    \/ HandlerResume(p, full)
    \/ DeleteCapsule(p)
    \/ DeleteEvict(p)
    \/ DeleteUnlink(p)
    \/ ListCapsules(p)
    \/ CapsuleInfo(p, full)
    \/ EmbeddingConfig(p)
    \/ UnknownTool(p)
    \/ Return(p)

\* requests served concurrently, with the default call parameters
Next == \E p \in Procs : Handle(p, FALSE)

Spec == Init /\ [][Next]_vars

\* the event loop: a promise of the engine settles in the end, and a
\* continuation that is ready again and again gets its turn
Fairness ==
    \A p \in Procs :
       /\ WF_vars(EngineOpen(p))
       /\ SF_vars(GetCapsuleResume(p, FALSE))
       /\ SF_vars(HandlerResume(p, FALSE))
       /\ SF_vars(DeleteEvict(p))
       /\ SF_vars(DeleteUnlink(p))
       /\ SF_vars(Return(p))

\* two concurrent request slots working on one capsule name (or none),
\* with one of the three search tools, which share their code path
LiveNames == { <<"a", "/">> }
InLive(p) ==
    /\ handler[p].args.capsule \in LiveNames \cup {Absent}
    /\ handler[p].op \notin {"text_search", "smart_search"}

HandleLive(p) ==
    \/ StoreMemory(p, FALSE) /\ InLive(p)'
    \/ ReadCapsule(p, FALSE) /\ InLive(p)'
    \/ CreateCapsule(p, FALSE) /\ InLive(p)'
    \/ EngineOpen(p)
    \/ GetCapsuleResume(p, FALSE)
    \/ HandlerResume(p, FALSE)
    \/ DeleteCapsule(p) /\ InLive(p)'
    \/ DeleteEvict(p)
    \/ DeleteUnlink(p)
    \/ ListCapsules(p)
    \/ CapsuleInfo(p, FALSE) /\ InLive(p)'
    \/ EmbeddingConfig(p)
    \/ UnknownTool(p)
    \/ Return(p)

NextLive == \E p \in Procs : HandleLive(p)

SpecLive == Init /\ [][NextLive]_vars /\ Fairness

\* requests served one at a time, with every call parameter, every shape
\* of engine result and every environment
InitSeq ==
    /\ capsuleCache = [n \in Names |-> NoHandle]
    /\ files = {}
    /\ dirExists \in BOOLEAN
    /\ env \in Environments
    /\ running = NoProc
    /\ handler = [p \in Procs |-> Idle]

NextSeq == Handle(1, TRUE)

SpecSeq == InitSeq /\ [][NextSeq]_vars

\* ================================================================ claims
\* the call that handler p has just taken up in this step
Takes(p, tools) ==
    /\ handler[p].pc = "idle"
    /\ handler'[p].pc # "idle"
    /\ handler'[p].op \in tools

NameOf(p) == handler[p].args.capsule
Opening(p) == handler[p].pc \in {"await_open", "open_settled"}
Frame == capsuleCache' = capsuleCache /\ files' = files /\ dirExists' = dirExists

\* C1: when the continuation of a getCapsule call has a successfully opened
\* handle in hand and the cache already holds a handle for that name (a
\* concurrent call populated it during the await), the cache keeps the
\* handle it has and the caller goes on with that cached handle: one open
\* per name wins and every caller holds the handle that is in the cache.
C1_OneOpenWins ==
    [][\A p \in Procs :
         ( /\ handler[p].pc = "open_settled"
           /\ handler[p].settled.ok
           /\ handler'[p] # handler[p]
           /\ capsuleCache[NameOf(p)] # NoHandle )
         => /\ capsuleCache' = capsuleCache
            /\ handler'[p].pc = "await_engine"
                 => handler'[p].instance = capsuleCache[NameOf(p)]]_vars

\* C2: while a confirmed delete_capsule is evicting the cache entry or
\* removing the file, no getCapsule call for the same name is suspended
\* between its existence check and its cache insertion.
C2_DeleteExcludesOpen ==
    \A p, q \in Procs :
       (handler[p].pc \in {"evict", "unlink"} /\ Opening(q)) => NameOf(p) # NameOf(q)

\* C3: between the eviction and the file removal of a confirmed
\* delete_capsule no other handler runs: no request is taken up and no
\* continuation of another call is executed (the engine may settle a
\* promise, whose continuation waits).
C3_DeleteAtomic ==
    [][\A p, q \in Procs :
         (p # q /\ handler[p].pc = "unlink")
         => \/ handler'[q] = handler[q]
            \/ handler[q].pc = "await_open" /\ handler'[q].pc = "open_settled"]_vars

C3_Witness ==
    \E p, q \in Procs :
       /\ p # q
       /\ handler[p].pc = "unlink"
       /\ capsuleCache[NameOf(p)] = NoHandle
       /\ handler[p].path \in files
       /\ handler[q].pc = "open_settled"
       /\ NameOf(q) = NameOf(p)

\* C4: a getCapsule call that finds a handle for the name in the cache
\* gives the caller exactly that handle, calls neither create nor use,
\* touches no file or directory and leaves the cache as it is, whatever the
\* flag and whether or not the file exists.  (store_memory and the read
\* tools call getCapsule first thing; create_capsule calls it after its own
\* existence check, so there the directory may have been made by the
\* handler.)
C4_CacheHit ==
    [][\A p \in Procs :
         ( /\ Takes(p, {"store_memory", "create_capsule"} \cup ReadTools)
           /\ handler'[p].args.capsule \in Names
           /\ capsuleCache[handler'[p].args.capsule] # NoHandle
           /\ handler'[p].op = "create_capsule"
                => (dirExists /\ getCapsulePath(handler'[p].args.capsule) \notin files) )
         => /\ Frame
            /\ handler'[p].pc \in {"await_engine", "done"}
            /\ handler'[p].pc = "await_engine"
                 => /\ handler'[p].instance = capsuleCache[handler'[p].args.capsule]
                    /\ handler'[p].pending.call \in {"put", "find", "timeline"}
            /\ handler'[p].pc = "done"
                 => handler'[p].op = "create_capsule" /\ ~IsError(handler'[p].response)]_vars

\* a caller holds the cached handle of a capsule whose file is gone
C4_Witness ==
    \E p \in Procs :
       /\ handler[p].pc = "await_engine"
       /\ handler[p].op \in ReadTools
       /\ handler[p].path = NoPath
       /\ handler[p].instance = capsuleCache[NameOf(p)]
       /\ getCapsulePath(NameOf(p)) \notin files

\* C5: a search or recent call on a name with no cache entry and no file
\* returns an error response at once; it calls no engine create, creates no
\* file and leaves the cache without an entry for the name.
C5_ReadNeverCreates ==
    [][\A p \in Procs :
         ( /\ Takes(p, ReadTools)
           /\ handler'[p].args.capsule \in Names
           /\ capsuleCache[handler'[p].args.capsule] = NoHandle
           /\ getCapsulePath(handler'[p].args.capsule) \notin files )
         => /\ handler'[p].pc = "done"
            /\ IsError(handler'[p].response)
            /\ files' = files
            /\ capsuleCache' = capsuleCache]_vars

C5_Witness ==
    \E p \in Procs :
       /\ handler[p].pc = "done"
       /\ handler[p].op = "smart_search"
       /\ NameOf(p) \in Names
       /\ IsError(handler[p].response)
       /\ dirExists
       /\ files = {}
       /\ capsuleCache[NameOf(p)] = NoHandle

\* C6: delete_capsule whose confirm is not the boolean true (false, absent,
\* or a truthy non-boolean) answers "not confirmed" and changes neither the
\* files, nor the directory, nor the cache.
C6_Unconfirmed ==
    [][\A p \in Procs :
         (Takes(p, {"delete_capsule"}) /\ handler'[p].args.confirm # "true")
         => /\ handler'[p].pc = "done"
            /\ handler'[p].response.text =
                 <<"Deletion not confirmed. Set 'confirm' to true to delete.">>
            /\ Frame]_vars

C6_Witness ==
    \E p \in Procs :
       /\ handler[p].pc = "done"
       /\ handler[p].op = "delete_capsule"
       /\ handler[p].args.confirm = "truthy"
       /\ NameOf(p) \in Names
       /\ capsuleCache[NameOf(p)] # NoHandle
       /\ getCapsulePath(NameOf(p)) \in files
       /\ handler[p].response = NotConfirmedResponse

\* C7: a confirmed delete_capsule on a name whose path does not exist
\* answers "does not exist" and changes nothing on the filesystem: no file
\* removed, no file or directory created, also when the storage root is
\* absent.
C7_DeleteMissing ==
    [][\A p \in Procs :
         ( /\ Takes(p, {"delete_capsule"})
           /\ handler'[p].args.confirm = "true"
           /\ handler'[p].args.capsule \in Names
           /\ getCapsulePath(handler'[p].args.capsule) \notin files )
         => /\ handler'[p].response = TextResponse(NotFoundMessage(handler'[p].args.capsule))
            /\ files' = files
            /\ dirExists' = dirExists]_vars

\* the tools that read args.capsule (args.name) before anything else
NeedsName == {"store_memory", "create_capsule", "capsule_info"} \cup ReadTools

\* C8: no call leaves handleToolCall by an exception: every call that has
\* ended has a response envelope, and a call whose required capsule name is
\* missing has ended with an "Error: <message>" response.
C8_FaultBarrier ==
    \A p \in Procs :
       /\ handler[p].pc # "raised"
       /\ handler[p].pc = "done"
            => /\ handler[p].response # NoResponse
               /\ (NameOf(p) = Absent /\ handler[p].op \in NeedsName)
                    => IsError(handler[p].response)

\* a call ended by an engine failure, one by a missing argument
C8_Witness ==
    \E p, q \in Procs :
       /\ handler[p].pc = "done"
       /\ handler[p].op = "store_memory"
       /\ handler[p].response = ErrorResponse(EngineError)
       /\ handler[q].pc = "open_settled"
       /\ ~handler[q].settled.ok

\* C9: a call with a name outside the ten tools answers "Unknown tool:
\* <name>", is not an error, and changes neither the cache nor the
\* filesystem.
C9_UnknownTool ==
    [][\A p \in Procs :
         (handler[p].pc = "idle" /\ handler'[p].pc # "idle"
            /\ handler'[p].op \notin Tools)
         => /\ handler'[p].pc = "done"
            /\ handler'[p].response.text = <<"Unknown tool: ", handler'[p].op>>
            /\ Frame]_vars

C9_Witness ==
    \E p \in Procs :
       /\ handler[p].pc = "done"
       /\ handler[p].op = "bogus_tool"
       /\ handler[p].response.text = <<"Unknown tool: ", "bogus_tool">>
       /\ files # {}

\* C10: getCapsule(name, false) on an uncached name whose path does not
\* exist fails with an error that is not reported through the "Failed to
\* access capsule" wrapper used for engine failures, and leaves the cache
\* and the files as they are.
C10_NotFoundDistinct ==
    [][\A p \in Procs :
         ( /\ Takes(p, ReadTools)
           /\ handler'[p].args.capsule \in Names
           /\ capsuleCache[handler'[p].args.capsule] = NoHandle
           /\ dirExists
           /\ getCapsulePath(handler'[p].args.capsule) \notin files )
         => /\ IsError(handler'[p].response)
            /\ ~IsAccessError(handler'[p].response)
            /\ files' = files
            /\ capsuleCache' = capsuleCache]_vars

\* C11: when create or use fails inside getCapsule, the call ends with the
\* access error that carries the capsule name and the engine's own text,
\* unmodified, and the cache is as it was.
C11_AccessErrorWraps ==
    [][\A p \in Procs :
         ( /\ handler[p].pc = "open_settled"
           /\ ~handler[p].settled.ok
           /\ handler'[p] # handler[p] )
         => /\ handler'[p].pc = "done"
            /\ handler'[p].response.text =
                 <<"Error: ", "Failed to access capsule '">> \o NameOf(p)
                   \o <<"': ">> \o handler[p].settled.message
            /\ capsuleCache' = capsuleCache]_vars

C11_Witness ==
    \E p \in Procs :
       /\ handler[p].pc = "done"
       /\ handler[p].op = "create_capsule"
       /\ handler[p].response.text =
            <<"Error: ", "Failed to access capsule '">> \o NameOf(p)
              \o <<"': ", "ENOSPC: no space left on device">>
       /\ capsuleCache[NameOf(p)] = NoHandle

\* C12 (as stated): after a successful store the cache holds an entry for
\* the name.
C12_StoredIsCached ==
    [][\A p \in Procs :
         ( /\ handler[p].op = "store_memory"
           /\ handler[p].pc = "await_engine"
           /\ handler'[p].pc = "done"
           /\ ~IsError(handler'[p].response) )
         => capsuleCache'[NameOf(p)] # NoHandle]_vars

\* C12: store_memory on a name with no cache entry calls create on the
\* resolved path when the file is missing and use when it is there, the
\* cache being untouched until the open settles; on success the handle is
\* put in the cache under the name in the same step that issues the put on
\* that handle; the completion of the put does not change the cache, so
\* the entry is there after the store unless a delete evicted it while the
\* put was in flight.
C12_StoreOpens ==
    [][\A p \in Procs :
         /\ ( /\ Takes(p, {"store_memory"})
              /\ handler'[p].args.capsule \in Names
              /\ capsuleCache[handler'[p].args.capsule] = NoHandle
              /\ handler'[p].pc # "done" )
            => /\ handler'[p].pc = "await_open"
               /\ handler'[p].path =
                    <<CAPSULES_DIR, "/">> \o safeName(handler'[p].args.capsule)
                      \o <<".mv2">>
               /\ handler'[p].pending.call =
                    (IF handler'[p].path \in files THEN "use" ELSE "create")
               /\ capsuleCache' = capsuleCache
               /\ files' = files
         /\ ( /\ handler[p].op = "store_memory"
              /\ handler[p].pc = "open_settled"
              /\ handler[p].settled.ok
              /\ handler'[p] # handler[p] )
            => /\ handler'[p].pc = "await_engine"
               /\ handler'[p].pending.call = "put"
               /\ handler'[p].instance = handler[p].settled.handle
               /\ capsuleCache'[NameOf(p)] = handler[p].settled.handle
         /\ ( /\ handler[p].op = "store_memory"
              /\ handler[p].pc = "await_engine"
              /\ handler'[p] # handler[p] )
            => capsuleCache' = capsuleCache]_vars

\* a store on a new name has created the file, cached the handle and
\* issued the put on it
C12_Witness ==
    \E p \in Procs :
       /\ handler[p].op = "store_memory"
       /\ handler[p].pc = "await_engine"
       /\ handler[p].pending.call = "put"
       /\ handler[p].path \in files
       /\ handler[p].instance # NoHandle
       /\ capsuleCache[NameOf(p)] = handler[p].instance

\* C13: store_memory passes a model to put exactly when enable_embedding is
\* true, and then it is getEmbeddingModel(embedding_model); otherwise put
\* gets no model, whatever embedding_model was.  The success response names
\* the capsule and, only when embedding was enabled, the model put was
\* given.
C13_ModelIffEnabled ==
    [][\A p \in Procs :
         /\ ( /\ handler[p].pc # "await_engine"
              /\ handler'[p].pc = "await_engine"
              /\ handler'[p].pending.call = "put" )
            => handler'[p].pending.embeddingModel =
                 (IF handler'[p].pending.enable_embedding
                  THEN getEmbeddingModel(handler'[p].pending.embedding_model)
                  ELSE Absent)
         /\ ( /\ handler[p].pc = "await_engine"
              /\ handler[p].pending.call = "put"
              /\ handler'[p].pc = "done"
              /\ ~IsError(handler'[p].response) )
            => handler'[p].response.text =
                 <<"Stored memory in capsule '">> \o NameOf(p) \o <<"'">>
                 \o (IF handler[p].pending.enable_embedding
                     THEN <<" (embedded with ">> \o handler[p].pending.embeddingModel
                          \o <<")">>
                     ELSE <<>>)]_vars

\* embedding_model was supplied, embedding was not enabled: put gets no
\* model
C13_Witness ==
    \E p \in Procs :
       /\ handler[p].pc = "await_engine"
       /\ handler[p].pending.call = "put"
       /\ ~handler[p].pending.enable_embedding
       /\ handler[p].pending.embedding_model = <<"nomic">>
       /\ handler[p].pending.embeddingModel = Absent

\* C14: create_capsule on a name whose path exists answers "already exists"
\* at the path a creating call reports for that name, calls neither create
\* nor use and changes neither the cache nor the filesystem; and a
\* create_capsule that answers "Created" leaves the file at that path, so
\* that the same call made again answers "already exists".
C14_CreateTwice ==
    [][\A p \in Procs :
         /\ ( /\ Takes(p, {"create_capsule"})
              /\ handler'[p].args.capsule \in Names
              /\ getCapsulePath(handler'[p].args.capsule) \in files )
            => /\ handler'[p].pc = "done"
               /\ handler'[p].response.text =
                    <<"Capsule '">> \o handler'[p].args.capsule
                    \o <<"' already exists at ", CAPSULES_DIR, "/">>
                    \o safeName(handler'[p].args.capsule) \o <<".mv2">>
               /\ Frame
         /\ ( /\ handler'[p].op = "create_capsule"
              /\ handler[p].pc # "done"
              /\ handler'[p].pc = "done"
              /\ handler'[p].response.text[1] = "Created capsule '" )
            => /\ handler'[p].response.text =
                    <<"Created capsule '">> \o handler'[p].args.capsule
                    \o <<"' at ", CAPSULES_DIR, "/">>
                    \o safeName(handler'[p].args.capsule) \o <<".mv2">>
               /\ getCapsulePath(handler'[p].args.capsule) \in files']_vars

\* the first half of C14 alone: the answer on an existing path and its
\* frame
C14_AlreadyExists ==
    [][\A p \in Procs :
         /\ ( /\ Takes(p, {"create_capsule"})
              /\ handler'[p].args.capsule \in Names
              /\ getCapsulePath(handler'[p].args.capsule) \in files )
            => /\ handler'[p].pc = "done"
               /\ handler'[p].response.text =
                    <<"Capsule '">> \o handler'[p].args.capsule
                    \o <<"' already exists at ", CAPSULES_DIR, "/">>
                    \o safeName(handler'[p].args.capsule) \o <<".mv2">>
               /\ Frame
         /\ ( /\ handler'[p].op = "create_capsule"
              /\ handler[p].pc # "done"
              /\ handler'[p].pc = "done"
              /\ handler'[p].response.text[1] = "Created capsule '" )
            => handler'[p].response.text =
                    <<"Created capsule '">> \o handler'[p].args.capsule
                    \o <<"' at ", CAPSULES_DIR, "/">>
                    \o safeName(handler'[p].args.capsule) \o <<".mv2">>]_vars

\* C15: capsule_info changes neither the files nor the cache and calls no
\* engine operation; given a name (and a storage root that is there or can
\* be made) it returns the name, the path under the storage root, whether
\* the file at that path exists at the time of the call, and the storage
\* root.
C15_InfoReadOnly ==
    [][\A p \in Procs :
         Takes(p, {"capsule_info"})
         => /\ handler'[p].pc = "done"
            /\ files' = files
            /\ capsuleCache' = capsuleCache
            /\ (handler'[p].args.capsule # Absent /\ dirExists')
                 => LET n == handler'[p].args.capsule
                        path == <<CAPSULES_DIR, "/">> \o safeName(n) \o <<".mv2">>
                    IN handler'[p].response.text =
                         <<"{\"name\": ">> \o n \o <<", \"path\": ">> \o path
                         \o <<", \"exists\": ",
                              IF path \in files THEN "true" ELSE "false",
                              ", \"capsulesDirectory\": ", CAPSULES_DIR, "}">>]_vars

\* capsule_info has answered for a name that was never created: the
\* answer says so, and there is still no file and no cache entry
C15_Witness ==
    \E p \in Procs :
       /\ handler[p].pc = "done"
       /\ handler[p].op = "capsule_info"
       /\ NameOf(p) \in Names
       /\ files = {}
       /\ \A n \in Names : capsuleCache[n] = NoHandle
       /\ \E i \in DOMAIN handler[p].response.text :
            handler[p].response.text[i] = "false"

\* the resolution C16 describes, read off the environment
C16_Reference(requested) ==
    LET configured == IF env.embeddingModel = Absent
                      THEN <<"bge-small">> ELSE env.embeddingModel
    IN IF requested # Absent /\ Len(requested) > 0 THEN requested
       ELSE IF env.ollamaHost # Absent /\ configured = <<"bge-small">>
            THEN <<"openai-small">>
            ELSE configured

\* C16: in every environment getEmbeddingModel(requested) is the requested
\* model when one is given and non-empty; otherwise "openai-small" when a
\* local-inference host is set and the configured default is "bge-small";
\* otherwise the configured default, "bge-small" when none is configured.
\* The model a store with embedding passes to put is that value.
C16_EffectiveModel ==
    /\ \A requested \in ModelArgs :
         getEmbeddingModel(requested) = C16_Reference(requested)
    /\ \A p \in Procs :
         ( /\ handler[p].pc = "await_engine"
           /\ handler[p].pending.call = "put"
           /\ handler[p].pending.enable_embedding )
         => handler[p].pending.embeddingModel =
              C16_Reference(handler[p].pending.embedding_model)

\* a store with embedding and no requested model, a local-inference host
\* set and no default configured: put is given "openai-small"
C16_Witness ==
    \E p \in Procs :
       /\ handler[p].pc = "await_engine"
       /\ handler[p].pending.call = "put"
       /\ handler[p].pending.enable_embedding
       /\ handler[p].pending.embedding_model = Absent
       /\ env.ollamaHost # Absent
       /\ env.embeddingModel = Absent
       /\ handler[p].pending.embeddingModel = <<"openai-small">>

\* C17: in one and the same environment otherwise, any two non-empty API
\* keys give the same embedding_config response, the response returned is
\* that one, and no part of it is the key.
C17_KeyValueHidden ==
    /\ \A k1, k2 \in ApiKeys \ {Absent} :
         EmbeddingConfigText(getEmbeddingConfig(k1))
           = EmbeddingConfigText(getEmbeddingConfig(k2))
    /\ \A p \in Procs :
         (handler[p].pc = "done" /\ handler[p].op = "embedding_config")
         => /\ \A i \in DOMAIN handler[p].response.text :
                 \A k \in ApiKeys \ {Absent} :
                    handler[p].response.text[i] # k[1]
            /\ env.openaiKey # Absent
                 => \A k \in ApiKeys \ {Absent} :
                       handler[p].response.text
                         = EmbeddingConfigText(getEmbeddingConfig(k))

\* embedding_config has answered in an environment with an API key
C17_Witness ==
    \E p \in Procs :
       /\ handler[p].pc = "done"
       /\ handler[p].op = "embedding_config"
       /\ env.openaiKey = <<"sk-two">>
       /\ \E i \in DOMAIN handler[p].response.text :
            /\ handler[p].response.text[i] = ", \"openaiKeySet\": "
            /\ handler[p].response.text[i + 1] = "true"

\* a search has just returned a response that is not an error response
C18_SearchReturns(p) ==
    /\ handler[p].pc = "done"
    /\ handler[p].op \in SearchTools
    /\ ~IsError(handler[p].response)

\* C18: normalizeResults gives a list back as it is, gives the hits list
\* of an object that has one, and gives the empty list for an object
\* without hits; what a search returns is the rendering of that list for
\* one of the payloads.
C18_Normalize ==
    /\ \A results \in Payloads :
         /\ results.array => normalizeResults(results) = results.items
         /\ (~results.array /\ results.hasHits)
              => normalizeResults(results) = results.hits
         /\ (~results.array /\ ~results.hasHits)
              => normalizeResults(results) = <<>>
    /\ \A p \in Procs :
         C18_SearchReturns(p)
         => \E results \in Payloads :
               LET hits == IF results.array THEN results.items
                           ELSE IF results.hasHits THEN results.hits ELSE <<>>
               IN handler[p].response.text =
                    (IF Len(hits) > 0 THEN Join(hits) ELSE <<"No results found">>)

\* a search has rendered the two hits of a bare list in the list's order
C18_Witness ==
    \E p \in Procs :
       /\ C18_SearchReturns(p)
       /\ handler[p].response.text =
            formatResult(Hit1) \o <<"\n\n---\n\n">> \o formatResult(Hit2)

\* C19: a search that gets a result from the engine answers exactly "No
\* results found" when the normalized result is empty (an empty list, an
\* object with empty hits, an object without hits), never an empty text,
\* and otherwise the rendered hits, one per hit, in the engine's order,
\* with the separator between them.
C19_SearchRendering ==
    [][/\ \A results \in Payloads :
            LET hits == normalizeResults(results)
                text == SearchResponse(results).text
            IN /\ Len(hits) = 0 => text = <<"No results found">>
               /\ Len(hits) = 1 => text = formatResult(hits[1])
               /\ Len(hits) = 2 => text = formatResult(hits[1]) \o <<"\n\n---\n\n">>
                                          \o formatResult(hits[2])
               /\ Len(hits) <= 2
       /\ \A p \in Procs :
            ( /\ handler[p].op \in SearchTools
              /\ handler[p].pc = "await_engine"
              /\ handler'[p].pc = "done"
              /\ ~IsError(handler'[p].response) )
            => /\ handler'[p].response.text \notin {<<>>, <<"">>}
               /\ \E results \in Payloads :
                    LET hits == normalizeResults(results) IN
                    handler'[p].response.text =
                      (IF Len(hits) = 0 THEN <<"No results found">> ELSE Join(hits))]_vars

\* a search on a capsule whose file exists has answered "No results found"
C19_Witness ==
    \E p \in Procs :
       /\ handler[p].pc = "done"
       /\ handler[p].op = "semantic_search"
       /\ getCapsulePath(NameOf(p)) \in files
       /\ handler[p].response.text = <<"No results found">>

\* the characters of [A-Za-z0-9_-]
C20_Allowed ==
    {"a", "b", "c", "d", "e", "f", "g", "h", "i", "j", "k", "l", "m",
     "n", "o", "p", "q", "r", "s", "t", "u", "v", "w", "x", "y", "z",
     "A", "B", "C", "D", "E", "F", "G", "H", "I", "J", "K", "L", "M",
     "N", "O", "P", "Q", "R", "S", "T", "U", "V", "W", "X", "Y", "Z",
     "0", "1", "2", "3", "4", "5", "6", "7", "8", "9", "_", "-"}

\* path is the storage root, one separator, a file name of n characters
\* of [A-Za-z0-9_-] and the extension
C20_DirectChild(path, n) ==
    /\ Len(path) = n + 3
    /\ path[1] = CAPSULES_DIR
    /\ path[2] = "/"
    /\ \A i \in 3..(n + 2) : path[i] \in C20_Allowed
    /\ path[n + 3] = ".mv2"

\* C20: for every name, the empty one and those with "/" and "." among
\* them, getCapsulePath is a direct child of the storage root whose file
\* name has only characters of [A-Za-z0-9_-] before the ".mv2" extension;
\* so is the path capsule_info reports for the name.
C20_PathUnderRoot ==
    /\ \A name \in NameInputs \cup Names :
         C20_DirectChild(getCapsulePath(name), Len(name))
    /\ \A p \in Procs :
         ( /\ handler[p].pc = "done"
           /\ handler[p].op = "capsule_info"
           /\ ~IsError(handler[p].response) )
         => LET n == Len(NameOf(p)) IN
            /\ handler[p].response.text[n + 2] = ", \"path\": "
            /\ C20_DirectChild(SubSeq(handler[p].response.text, n + 3, 2 * n + 5), n)

\* capsule_info has resolved the name ".."
C20_Witness ==
    \E p \in Procs :
       /\ handler[p].pc = "done"
       /\ handler[p].op = "capsule_info"
       /\ NameOf(p) = <<".", ".">>
       /\ SubSeq(handler[p].response.text, 5, 9)
            = <<CAPSULES_DIR, "/", "_", "_", ".mv2">>

\* C21: a confirmed delete_capsule of an existing capsule first removes the
\* cache entry of the name, leaving the file, and then removes the file;
\* a file is only ever removed by such a delete, at a moment when the
\* deleted name has no cache entry.
C21_EvictThenUnlink ==
    [][/\ \A p \in Procs :
            ( /\ handler[p].pc = "evict"
              /\ handler'[p] # handler[p] )
            => /\ handler'[p].pc = "unlink"
               /\ capsuleCache'[NameOf(p)] = NoHandle
               /\ files' = files
       /\ \A f \in files \ files' :
            \E p \in Procs :
               /\ handler[p].op = "delete_capsule"
               /\ handler[p].pc = "unlink"
               /\ handler[p].path = f
               /\ capsuleCache[NameOf(p)] = NoHandle
               /\ capsuleCache' = capsuleCache]_vars

\* a delete of a name that was cached has removed the file
C21_Witness ==
    \E p \in Procs :
       /\ handler[p].pc = "done"
       /\ handler[p].op = "delete_capsule"
       /\ handler[p].response.text = <<"Deleted capsule '">> \o NameOf(p) \o <<"'">>
       /\ getCapsulePath(NameOf(p)) \notin files
       /\ capsuleCache[NameOf(p)] = NoHandle
       /\ \E q \in Procs : q # p /\ handler[q].instance # NoHandle
                                 /\ NameOf(q) = NameOf(p)

\* C22: recent_memories calls timeline or, failing that, find without a
\* query and with the same limit, and in both branches answers with the
\* rendering of the normalized result: the hits of a wrapped payload are
\* rendered like those of a bare list, and an empty result gives "No
\* memories found".
C22_RecentNormalized ==
    [][\A p \in Procs :
         ( /\ handler[p].op = "recent_memories"
           /\ handler[p].pc = "await_engine"
           /\ handler'[p].pc = "done"
           /\ ~IsError(handler'[p].response) )
         => /\ handler[p].pending.call \in {"timeline", "find"}
            /\ handler[p].pending.mode = "none"
            /\ LET results == handler'[p].settled.results
                   hits == IF results.array THEN results.items
                           ELSE IF results.hasHits THEN results.hits ELSE <<>>
               IN handler'[p].response.text =
                    (IF Len(hits) > 0 THEN Join(hits) ELSE <<"No memories found">>)]_vars

\* C23: the k that a search or recent call passes to the engine is the
\* limit the caller supplied whenever one is supplied, 0 included, and 10
\* only when none is supplied.
C23_LimitPassed ==
    \A p \in Procs :
       ( /\ handler[p].pc = "await_engine"
         /\ handler[p].pending.call \in {"find", "timeline"} )
       => handler[p].pending.k =
            (IF handler[p].pending.limit # NoLimit
             THEN handler[p].pending.limit ELSE 10)

\* C24: once the cache holds a handle for a name, the entry stays what it
\* is in every step, except that the eviction of a confirmed
\* delete_capsule of that very name removes it; and a getCapsule call for
\* a cached name goes on with the cached handle.
C24_EntryStable ==
    [][/\ \A n \in Names :
            capsuleCache[n] # NoHandle
            => \/ capsuleCache'[n] = capsuleCache[n]
               \/ /\ capsuleCache'[n] = NoHandle
                  /\ \E p \in Procs :
                       /\ handler[p].op = "delete_capsule"
                       /\ handler[p].pc = "evict"
                       /\ handler[p].args.confirm = "true"
                       /\ NameOf(p) = n
       /\ \A p \in Procs :
            ( /\ Takes(p, {"store_memory"} \cup ReadTools)
              /\ handler'[p].args.capsule \in Names
              /\ capsuleCache[handler'[p].args.capsule] # NoHandle )
            => handler'[p].instance = capsuleCache[handler'[p].args.capsule]]_vars

\* C25: if every engine call settles and every ready continuation gets
\* its turn, every call that has been taken up returns a response,
\* whatever the other handler does on the same or on another name.
C25_EveryCallReturns ==
    \A p \in Procs : (handler[p].pc # "idle") ~> (handler[p].pc = "done")

\* both handlers are waiting for the open of the same capsule
C25_Witness ==
    /\ \A p \in Procs : handler[p].pc = "open_settled"
    /\ NameOf(1) = NameOf(2)

\* C26: two names with the same path never have different handles in the
\* cache, and when a confirmed delete_capsule has removed a file no name
\* with that path has a handle in the cache.
C26_OneHandlePerFile ==
    [][/\ \A n, m \in Names :
            ( /\ getCapsulePath(n) = getCapsulePath(m)
              /\ capsuleCache'[n] # NoHandle
              /\ capsuleCache'[m] # NoHandle )
            => capsuleCache'[n] = capsuleCache'[m]
       /\ \A f \in files \ files' :
            \A n \in Names :
               getCapsulePath(n) = f => capsuleCache'[n] = NoHandle]_vars

\* C27: whenever no handler is inside a synchronous block, every name that
\* has a handle in the cache has its file.
C27_CachedHasFile ==
    running = NoProc
    => \A n \in Names :
          capsuleCache[n] # NoHandle => getCapsulePath(n) \in files

\* C28: a confirmed delete_capsule whose unlink fails answers "Error: "
\* with the failure's text and leaves things as they were before the
\* call: the file is there, and the name has the cache entry it had.
C28_FailedDeleteRestores ==
    [][\A p \in Procs :
         ( /\ handler[p].op = "delete_capsule"
           /\ handler[p].pc = "unlink"
           /\ handler'[p].pc = "done"
           /\ IsError(handler'[p].response) )
         => /\ handler'[p].response.text =
                 <<"Error: ", "EACCES: permission denied, unlink">>
            /\ files' = files
            /\ handler[p].path \in files'
            /\ capsuleCache'[NameOf(p)] = handler[p].instance]_vars

====
